---- MODULE Spec2Model ----
(***************************************************************************)
(* State-machine model of scvi/lightning/_callbacks.py: the SaveBestState  *)
(* callback (metric monitor + best-state tracker) and the SubSampleLabels  *)
(* callback, driven by the training loop that fires their hooks.           *)
(*                                                                         *)
(* Metric values are floats; they are modelled as the small integers       *)
(* 0..MaxMetric together with +inf, -inf and NaN, and a missing metric as  *)
(* None.  Module parameters are modelled as one tensor whose value is the  *)
(* number of the optimizer step that produced it, stored in a heap so that *)
(* a reference to the live tensor and an independent copy are different    *)
(* things.                                                                 *)
(***************************************************************************)
EXTENDS Integers, Sequences, FiniteSets, TLC

\* ---- bounds -------------------------------------------------------------
MaxEpochs == 4      \* on_epoch_end calls in the lifetime of the callback
MaxPeriod == 2      \* largest period the constructor is given
MaxMetric == 2      \* finite metric values are 0..MaxMetric
MaxBatches == 2     \* batches per epoch of the training data loader
MaxSessions == 2    \* training sessions run with the same callback
MaxWarmup == 5      \* largest KL warmup length, in epochs or iterations
MaxKLEpochs == 5    \* epochs of a session of the annealing specification

\* ---- metric values ------------------------------------------------------
None == [tag |-> "none", v |-> 0]
NaN == [tag |-> "nan", v |-> 0]
Inf == [tag |-> "inf", v |-> 1]
NegInf == [tag |-> "inf", v |-> 0 - 1]
Num(n) == [tag |-> "num", v |-> n]

FiniteVals == {Num(n) : n \in 0..MaxMetric}
MetricVals == FiniteVals \cup {Inf, NegInf, NaN}
Logs == MetricVals \cup {None}

\* np.less_equal in place of np.less
less_equal(a, b) ==
  IF a.tag = "nan" \/ b.tag = "nan" THEN FALSE
  ELSE IF a.tag = "inf" /\ b.tag = "inf" THEN a.v <= b.v
  ELSE IF a.tag = "inf" THEN a.v < 1
  ELSE IF b.tag = "inf" THEN b.v > 0
  ELSE a.v <= b.v

\* np.less on floats: false whenever an operand is NaN
less(a, b) ==
  IF a.tag = "nan" \/ b.tag = "nan" THEN FALSE
  ELSE IF a.tag = "inf" /\ b.tag = "inf" THEN a.v < b.v
  ELSE IF a.tag = "inf" THEN a.v < 1
  ELSE IF b.tag = "inf" THEN b.v > 0
  ELSE a.v < b.v

\* np.greater on floats
greater(a, b) == less(b, a)

Modes == {"min", "max", "auto"}

VARIABLES
  phase,                    \* position of the training loop
  session,                  \* training sessions started so far
  requested_mode,           \* the mode argument given to the constructor
  raised,                   \* exception raised by the callback's own code
  mode, monitor_op, period, \* SaveBestState fields
  epochs_since_last_check,
  best_model_state,         \* "None" or a reference into heap
  best_model_metric_val,
  heap,                     \* tensor storage: reference -> parameter value
  n_steps,                  \* optimizer steps taken so far
  loaded,                   \* last argument given to load_state_dict
  n_batches, batch_idx,     \* training data loader: length, batches drawn
  resample_calls,           \* resample_labels calls in the current epoch
  history,                  \* one record per on_epoch_end call
  n_epochs_kl_warmup,       \* epoch-based warmup length, or Unset
  n_iter_kl_warmup,         \* iteration-based warmup length, or Unset
  current_epoch,            \* epochs completed by the trainer
  current_iteration,        \* optimizer iterations completed by the trainer
  iters_per_epoch,          \* batches in one epoch of the annealed session
  kl_weight                 \* the weight of the KL term, a fraction num/den

vars == <<phase, session, requested_mode, raised, mode, monitor_op, period,
          epochs_since_last_check, best_model_state, best_model_metric_val,
          heap, n_steps, loaded, n_batches, batch_idx, resample_calls,
          history, n_epochs_kl_warmup, n_iter_kl_warmup, current_epoch,
          current_iteration, iters_per_epoch, kl_weight>>

callbacks == <<phase, session, requested_mode, raised, mode, monitor_op,
               period, epochs_since_last_check, best_model_state,
               best_model_metric_val, heap, n_steps, loaded, n_batches,
               batch_idx, resample_calls, history>>
annealing == <<n_epochs_kl_warmup, n_iter_kl_warmup, current_epoch,
               current_iteration, iters_per_epoch, kl_weight>>

tracker == <<mode, monitor_op, period, epochs_since_last_check,
             best_model_state, best_model_metric_val>>
loader == <<n_batches, batch_idx, resample_calls>>

\* the object exists once the constructor has returned
constructed == phase \notin {"New", "CtorFailed"}

\* a warmup length that was not given (None)
Unset == 0 - 1

\* the weight 1.0
One == [num |-> 1, den |-> 1]

CallbacksNew ==
  /\ phase = "New"
  /\ session = 0
  /\ requested_mode = "unset"
  /\ raised = "NoError"
  /\ mode = "unset"
  /\ monitor_op = "unset"
  /\ period = 0
  /\ epochs_since_last_check = 0
  /\ best_model_state = "None"
  /\ best_model_metric_val = None
  /\ heap = [a \in {"live"} |-> 0]
  /\ n_steps = 0
  /\ loaded = "NoCall"
  /\ n_batches = 0
  /\ batch_idx = 0
  /\ resample_calls = 0
  /\ history = <<>>

\* the callbacks are studied with annealing disabled
AnnealingOff ==
  /\ n_epochs_kl_warmup = Unset
  /\ n_iter_kl_warmup = Unset
  /\ current_epoch = 0
  /\ current_iteration = 0
  /\ iters_per_epoch = 1
  /\ kl_weight = One

Init == CallbacksNew /\ AnnealingOff

\* ---- SaveBestState -------------------------------------------------------

\* the mode check left out
mode_unchecked(m) == TRUE

\* the mode check of the constructor
mode_is_known(m) == m \in {"min", "max"}

\* the operators of the two modes exchanged
mode_settings_swapped(m) ==
  IF m = "min" THEN [op |-> "greater", best |-> Inf, mode |-> "min"]
  ELSE IF m = "max" THEN [op |-> "less", best |-> NegInf, mode |-> "max"]
  ELSE [op |-> "less", best |-> Inf, mode |-> "min"]

\* the if/elif/else of the constructor; the monitor is the default
\* "elbo_validation", which is neither "acc"-like nor "fmeasure"-like
mode_settings(m) ==
  IF m = "min" THEN [op |-> "less", best |-> Inf, mode |-> "min"]
  ELSE IF m = "max" THEN [op |-> "greater", best |-> NegInf, mode |-> "max"]
  ELSE [op |-> "less", best |-> Inf, mode |-> "min"]

SaveBestState_init(m, p) ==
  /\ phase = "New"
  /\ requested_mode' = m
  /\ IF ~mode_is_known(m)
     THEN /\ raised' = "ValueError"
          /\ phase' = "CtorFailed"
          /\ UNCHANGED tracker
     ELSE /\ period' = p
          /\ epochs_since_last_check' = 0
          /\ best_model_state' = "None"
          /\ monitor_op' = mode_settings(m).op
          /\ best_model_metric_val' = mode_settings(m).best
          /\ mode' = mode_settings(m).mode
          /\ phase' = "Idle"
          /\ UNCHANGED raised
  /\ UNCHANGED <<session, heap, n_steps, loaded, loader, history>>
  /\ UNCHANGED annealing

\* the interval test with > in place of >=
interval_elapsed_late(n) == n > period

\* the interval test of on_epoch_end, on the incremented counter
interval_elapsed(n) == n >= period

\* the None test left out
metric_missing_unchecked(current) == FALSE

\* logs.get(monitor) found nothing
metric_missing(current) == current = None

\* the comparison of min-mode used whatever the mode
check_monitor_top_min_only(current) == less(current, best_model_metric_val)

check_monitor_top(current) ==
  IF monitor_op = "less" THEN less(current, best_model_metric_val)
  ELSE greater(current, best_model_metric_val)

\* pl_module.model.state_dict(): a dict of references to the live tensors
state_dict == "live"

\* the snapshot kept by reference instead of copied
deepcopy_alias(ref) == ref

\* deepcopy: a new object, independent of the one copied
deepcopy(ref) == "copy"

\* the values copied the wrong way, from the held snapshot into the source
stored_reversed(h, target, src) ==
  IF target \in DOMAIN h
  THEN [a \in DOMAIN h |-> IF a = src THEN h[target] ELSE h[a]]
  ELSE [a \in (DOMAIN h) \cup {target} |-> h[src]]

\* the storage after  target = <object holding the values of src>
stored(h, target, src) ==
  [a \in (DOMAIN h) \cup {target} |-> IF a = target THEN h[src] ELSE h[a]]

\* the counter reset only when the metric was found
on_epoch_end_retry(logs) ==
  /\ phase = "EpochEnd"
  /\ LET n == epochs_since_last_check + 1
         looked == interval_elapsed(n)
         current == logs
         improved == looked /\ ~metric_missing(current)
                            /\ check_monitor_top(current)
         snapshot == deepcopy(state_dict)
     IN  /\ epochs_since_last_check' =
              IF looked /\ ~metric_missing(current) THEN 0 ELSE n
         /\ IF improved
            THEN /\ best_model_state' = snapshot
                 /\ heap' = stored(heap, snapshot, state_dict)
                 /\ best_model_metric_val' = current
            ELSE UNCHANGED <<best_model_state, heap, best_model_metric_val>>
         /\ history' = Append(history,
                         [cur |-> logs, looked |-> looked,
                          warned |-> looked /\ metric_missing(current),
                          improved |-> improved,
                          param |-> heap["live"], sess |-> session])
  /\ phase' = "LoopHead"
  /\ UNCHANGED <<session, requested_mode, raised, mode, monitor_op, period,
                 n_steps, loaded, loader>>
  /\ UNCHANGED annealing

on_epoch_end(logs) ==
  /\ phase = "EpochEnd"
  /\ LET n == epochs_since_last_check + 1
         looked == interval_elapsed(n)
         current == logs
         improved == looked /\ ~metric_missing(current)
                            /\ check_monitor_top(current)
         snapshot == deepcopy(state_dict)
     IN  /\ epochs_since_last_check' = IF looked THEN 0 ELSE n
         /\ IF improved
            THEN /\ best_model_state' = snapshot
                 /\ heap' = stored(heap, snapshot, state_dict)
                 /\ best_model_metric_val' = current
            ELSE UNCHANGED <<best_model_state, heap, best_model_metric_val>>
         /\ history' = Append(history,
                         [cur |-> logs, looked |-> looked,
                          warned |-> looked /\ metric_missing(current),
                          improved |-> improved,
                          param |-> heap["live"], sess |-> session])
  /\ phase' = "LoopHead"
  /\ UNCHANGED <<session, requested_mode, raised, mode, monitor_op, period,
                 n_steps, loaded, loader>>
  /\ UNCHANGED annealing

\* the hook without its restore
on_train_end_no_restore ==
  /\ phase = "LoopHead"
  /\ phase' = "Completed"
  /\ UNCHANGED <<session, requested_mode, raised, tracker, heap, n_steps,
                 loaded, loader, history>>
  /\ UNCHANGED annealing

\* the tracker cleared once its snapshot is restored
on_train_end_reset ==
  /\ phase = "LoopHead"
  /\ loaded' = best_model_state
  /\ IF best_model_state = "None"
     THEN /\ UNCHANGED heap
          /\ phase' \in {"Completed", "Failed"}
     ELSE /\ heap' = [heap EXCEPT !["live"] = heap[best_model_state]]
          /\ phase' = "Completed"
  /\ best_model_state' = "None"
  /\ best_model_metric_val' = IF mode = "min" THEN Inf ELSE NegInf
  /\ UNCHANGED <<session, requested_mode, raised, mode, monitor_op, period,
                 epochs_since_last_check, n_steps, loader, history>>
  /\ UNCHANGED annealing

\* load_state_dict(None) is outside this code: it either fails or does nothing
on_train_end ==
  /\ phase = "LoopHead"
  /\ loaded' = best_model_state
  /\ IF best_model_state = "None"
     THEN /\ UNCHANGED heap
          /\ phase' \in {"Completed", "Failed"}
     ELSE /\ heap' = [heap EXCEPT !["live"] = heap[best_model_state]]
          /\ phase' = "Completed"
  /\ UNCHANGED <<session, requested_mode, raised, tracker, n_steps, loader,
                 history>>
  /\ UNCHANGED annealing

\* ---- SubSampleLabels -----------------------------------------------------

\* the hook without its call to the data loader
on_epoch_start_no_resample ==
  /\ phase = "EpochStart"
  /\ phase' = "Batches"
  /\ UNCHANGED <<session, requested_mode, raised, tracker, heap, n_steps,
                 loaded, loader, history>>
  /\ UNCHANGED annealing

\* the data loader redraws its label-stratified subsample
resample_labels(calls) == calls + 1

on_epoch_start ==
  /\ phase = "EpochStart"
  /\ resample_calls' = resample_labels(resample_calls)
  /\ phase' = "Batches"
  /\ UNCHANGED <<session, requested_mode, raised, tracker, heap, n_steps,
                 loaded, n_batches, batch_idx, history>>
  /\ UNCHANGED annealing

\* ---- training loop -------------------------------------------------------

Fit ==
  /\ phase \in {"Idle", "Completed", "Failed"}
  /\ session < MaxSessions
  /\ session' = session + 1
  /\ n_batches' \in 1..MaxBatches
  /\ batch_idx' = 0
  /\ resample_calls' = 0
  /\ phase' = "LoopHead"
  /\ UNCHANGED <<requested_mode, raised, tracker, heap, n_steps, loaded,
                 history>>
  /\ UNCHANGED annealing

BeginEpoch ==
  /\ phase = "LoopHead"
  /\ Len(history) < MaxEpochs
  /\ batch_idx' = 0
  /\ resample_calls' = 0
  /\ phase' = "EpochStart"
  /\ UNCHANGED <<session, requested_mode, raised, tracker, heap, n_steps,
                 loaded, n_batches, history>>
  /\ UNCHANGED annealing

\* one minibatch: loss, backward pass, in-place optimizer step
TrainBatch ==
  /\ phase = "Batches"
  /\ batch_idx < n_batches
  /\ n_steps' = n_steps + 1
  /\ heap' = [heap EXCEPT !["live"] = n_steps + 1]
  /\ batch_idx' = batch_idx + 1
  /\ phase' = IF batch_idx + 1 = n_batches THEN "EpochEnd" ELSE "Batches"
  /\ UNCHANGED <<session, requested_mode, raised, tracker, loaded, n_batches,
                 resample_calls, history>>
  /\ UNCHANGED annealing

\* the loss computation produces non-finite values
LossFails ==
  /\ phase = "Batches"
  /\ phase' = "Failed"
  /\ UNCHANGED <<session, requested_mode, raised, tracker, heap, n_steps,
                 loaded, loader, history>>
  /\ UNCHANGED annealing

Next ==
  \/ \E m \in Modes, p \in 1..MaxPeriod : SaveBestState_init(m, p)
  \/ Fit
  \/ BeginEpoch
  \/ on_epoch_start
  \/ TrainBatch
  \/ LossFails
  \/ \E logs \in Logs : on_epoch_end(logs)
  \/ on_train_end

Spec == Init /\ [][Next]_vars

\* ---- KL annealing scheduler ------------------------------------------------

\* the ramp without its clipping at 1.0
ramp_unclipped(elapsed, warmup) ==
  IF warmup = 0 THEN One
  ELSE [num |-> elapsed, den |-> warmup]

\* min(1.0, elapsed / warmup) as a fraction; 1.0 when the length is zero
ramp(elapsed, warmup) ==
  IF warmup = 0 THEN One
  ELSE [num |-> IF elapsed < warmup THEN elapsed ELSE warmup, den |-> warmup]

\* the weight as a function of the counters and the configured warmup
kl_weight_of(ew, iw, epoch, iteration) ==
  IF ew # Unset THEN ramp(epoch, ew)
  ELSE IF iw # Unset THEN ramp(iteration, iw)
  ELSE One

\* a session configured with at most one of the two warmup lengths
InitKL ==
  /\ CallbacksNew
  /\ n_epochs_kl_warmup \in {Unset} \cup (0..MaxWarmup)
  /\ n_iter_kl_warmup \in {Unset} \cup (0..MaxWarmup)
  /\ n_epochs_kl_warmup = Unset \/ n_iter_kl_warmup = Unset
  /\ current_epoch = 0
  /\ current_iteration = 0
  /\ iters_per_epoch \in 1..MaxBatches
  /\ kl_weight = kl_weight_of(n_epochs_kl_warmup, n_iter_kl_warmup, 0, 0)

\* one optimizer iteration of the current epoch
KLTrainBatch ==
  /\ current_epoch < MaxKLEpochs
  /\ current_iteration < (current_epoch + 1) * iters_per_epoch
  /\ current_iteration' = current_iteration + 1
  /\ kl_weight' = kl_weight_of(n_epochs_kl_warmup, n_iter_kl_warmup,
                               current_epoch, current_iteration + 1)
  /\ UNCHANGED <<n_epochs_kl_warmup, n_iter_kl_warmup, current_epoch,
                 iters_per_epoch>>
  /\ UNCHANGED callbacks

\* the end of an epoch: the epoch counter advances
KLEndEpoch ==
  /\ current_epoch < MaxKLEpochs
  /\ current_iteration = (current_epoch + 1) * iters_per_epoch
  /\ current_epoch' = current_epoch + 1
  /\ kl_weight' = kl_weight_of(n_epochs_kl_warmup, n_iter_kl_warmup,
                               current_epoch + 1, current_iteration)
  /\ UNCHANGED <<n_epochs_kl_warmup, n_iter_kl_warmup, current_iteration,
                 iters_per_epoch>>
  /\ UNCHANGED callbacks

NextKL == KLTrainBatch \/ KLEndEpoch

SpecKL == InitKL /\ [][NextKL]_vars

\* ---- the history of on_epoch_end calls -----------------------------------

Calls == 1..Len(history)
Last == history[Len(history)]

\* the calls at which a metric value was looked up and found
Evaluated == {i \in Calls : history[i].looked /\ history[i].cur # None}
Captures == {i \in Calls : history[i].improved}

Max(S) == CHOOSE x \in S : \A y \in S : y <= x
Min(S) == CHOOSE x \in S : \A y \in S : x <= y

\* the order of the extended reals, NaN being comparable with nothing
Rank(x) == IF x.tag = "inf" THEN (IF x.v = 1 THEN MaxMetric + 1 ELSE 0 - 1)
           ELSE x.v
lt(a, b) == /\ a.tag \in {"num", "inf"}
            /\ b.tag \in {"num", "inf"}
            /\ Rank(a) < Rank(b)
better(m, a, b) == IF m = "min" THEN lt(a, b) ELSE lt(b, a)

AllAvailable == \A i \in Calls : history[i].cur # None
AllFinite == \A i \in Calls : history[i].cur \in FiniteVals
\* the logged values are ordered numbers, each below the ones before it
StrictlyDecreasing ==
  /\ \A i \in Calls : history[i].cur.tag \in {"num", "inf"}
  /\ \A i \in Calls : \A j \in Calls :
       i < j => lt(history[j].cur, history[i].cur)

TypeOK ==
  /\ phase \in {"New", "CtorFailed", "Idle", "LoopHead", "EpochStart",
                "Batches", "EpochEnd", "Completed", "Failed"}
  /\ best_model_state \in {"None", "live", "copy"}
  /\ best_model_metric_val \in Logs
  /\ epochs_since_last_check \in 0..MaxPeriod
  /\ Len(history) <= MaxEpochs

\* ---- claims ---------------------------------------------------------------

\* C1: when on_train_end runs and no snapshot was ever captured, the tracker
\* raises the fatal restore error and does not hand the absent snapshot to
\* load_state_dict.
C1_FinalizeWithoutSnapshotRaises ==
  (loaded # "NoCall" /\ best_model_state = "None")
    => (raised = "RestoreError" /\ loaded # "None")

\* C2: once captured, the snapshot keeps the parameter values of the moment of
\* capture whatever happens to the live parameters afterwards, and after
\* on_train_end the live parameters are exactly those values.
C2_SnapshotIsolated ==
  (constructed /\ best_model_state # "None") =>
    /\ Captures # {}
    /\ heap[best_model_state] = history[Max(Captures)].param
    /\ (phase = "Completed" => heap["live"] = history[Max(Captures)].param)

\* a snapshot was captured, optimizer steps and a non-improving epoch
\* followed, and on_train_end has restored it
C2_Witness ==
  /\ phase = "Completed"
  /\ best_model_state # "None"
  /\ Captures # {}
  /\ Max(Captures) < Len(history)
  /\ n_steps > history[Max(Captures)].param
  /\ heap["live"] = history[Max(Captures)].param
\* what C3 asserts of the call just made
C3_EveryCheckImproves ==
  \A i \in Calls :
    history[i].looked =>
      /\ history[i].improved
      /\ (i = Len(history) => best_model_metric_val = history[i].cur)

\* C3 as stated: in min-mode, while the logged metric values are all available
\* and strictly decreasing, every call at which the interval has elapsed
\* captures a snapshot and leaves best_model_metric_val at the logged value.
C3_StrictlyDecreasingAlwaysImproves ==
  (constructed /\ mode = "min" /\ AllAvailable /\ StrictlyDecreasing)
    => C3_EveryCheckImproves

\* C3 amended: the same, for sequences of values below +infinity.
C3_DecreasingBelowInfAlwaysImproves ==
  (constructed /\ mode = "min" /\ AllAvailable /\ StrictlyDecreasing
     /\ \A i \in Calls : history[i].cur # Inf)
    => C3_EveryCheckImproves

\* four strictly decreasing values with period 2: checks at calls 2 and 4
C3_Witness ==
  /\ constructed /\ mode = "min" /\ period = 2
  /\ AllAvailable /\ StrictlyDecreasing
  /\ \A i \in Calls : history[i].cur # Inf
  /\ Len(history) = 4
  /\ history[2].improved /\ history[4].improved
  /\ ~history[3].looked
  /\ best_model_metric_val = history[4].cur
\* every metric value logged so far is the same value
Constant ==
  \A i \in Calls : \A j \in Calls :
    (history[i].cur # None /\ history[j].cur # None)
      => history[i].cur = history[j].cur

\* C4: while the logged metric is constant, in either mode, only the first
\* evaluation can report an improvement; the best value and the snapshot it
\* set are not replaced by any later call.
C4_ConstantNeverImprovesAgain ==
  (constructed /\ Constant) =>
    /\ \A i \in Captures : i = Min(Evaluated)
    /\ (Captures # {} =>
          /\ best_model_metric_val = history[Min(Evaluated)].cur
          /\ heap[best_model_state] = history[Min(Evaluated)].param)

\* the first evaluation captured; two later evaluations of the same value
\* did not
C4_Witness ==
  /\ constructed /\ Constant /\ mode = "max"
  /\ Cardinality(Evaluated) >= 3
  /\ Captures = {Min(Evaluated)}
  /\ n_steps > history[Min(Evaluated)].param
\* C5: an on_epoch_end call whose interval has elapsed and that finds the
\* metric missing warns, raises nothing, leaves best_model_metric_val and
\* best_model_state as they were, and hands control back to the loop.
C5_MissingMetricSkips ==
  [][(/\ phase = "EpochEnd"
      /\ Len(history') = Len(history) + 1
      /\ epochs_since_last_check + 1 >= period
      /\ history'[Len(history')].cur = None)
     => (/\ history'[Len(history')].warned
         /\ ~history'[Len(history')].improved
         /\ raised' = raised
         /\ best_model_metric_val' = best_model_metric_val
         /\ best_model_state' = best_model_state
         /\ heap' = heap
         /\ phase' = "LoopHead")]_vars

\* a check found the metric missing and a later epoch was evaluated and
\* captured
C5_Witness ==
  /\ raised = "NoError"
  /\ \E i \in Calls : \E j \in Calls :
       /\ i < j
       /\ history[i].warned /\ history[i].cur = None
       /\ history[j].improved

\* C6: every on_epoch_end call increments epochs_since_last_check; the metric
\* is compared only when the incremented counter has reached the period;
\* otherwise the counter keeps its incremented value and neither
\* best_model_metric_val nor best_model_state changes, whatever was logged.
C6_OnlyChecksWhenIntervalElapsed ==
  [][(phase = "EpochEnd" /\ Len(history') = Len(history) + 1)
     => IF epochs_since_last_check + 1 >= period
        THEN /\ history'[Len(history')].looked
             /\ epochs_since_last_check' = 0
        ELSE /\ ~history'[Len(history')].looked
             /\ ~history'[Len(history')].improved
             /\ epochs_since_last_check' = epochs_since_last_check + 1
             /\ best_model_metric_val' = best_model_metric_val
             /\ best_model_state' = best_model_state
             /\ heap' = heap]_vars

\* a call before the interval had elapsed logged a value better than the
\* best one and changed nothing
C6_Witness ==
  /\ constructed /\ history # <<>>
  /\ ~Last.looked
  /\ epochs_since_last_check > 0
  /\ Captures # {}
  /\ better(mode, Last.cur, best_model_metric_val)
\* the evaluated calls whose value is strictly better, in the tracker's mode,
\* than every value evaluated before
StrictImprovements ==
  {i \in Evaluated :
     /\ history[i].cur # NaN
     /\ \A j \in Evaluated :
          j < i => better(mode, history[i].cur, history[j].cur)}

\* what C7 asserts when a session has ended
C7_HoldsLastImprovement ==
  /\ best_model_state # "None"
  /\ heap[best_model_state] = history[Max(StrictImprovements)].param
  /\ heap["live"] = history[Max(StrictImprovements)].param

\* C7 as stated: with period 1, when training ends the snapshot held and
\* restored is the module state of the last epoch whose metric strictly
\* improved on every value evaluated before.
C7_RestoresLastStrictImprovement ==
  (constructed /\ period = 1 /\ phase = "Completed"
     /\ StrictImprovements # {})
    => C7_HoldsLastImprovement

\* C7 amended: the same, when the evaluated metric values are finite numbers.
C7_RestoresLastFiniteImprovement ==
  (constructed /\ period = 1 /\ phase = "Completed"
     /\ StrictImprovements # {}
     /\ \A i \in Evaluated : history[i].cur \in FiniteVals)
    => C7_HoldsLastImprovement

\* the metric improved at epochs 1 and 3 only, a non-improving epoch
\* followed, and on_train_end restored the state of the end of epoch 3
C7_Witness ==
  /\ constructed /\ period = 1 /\ phase = "Completed"
  /\ Len(history) = 4
  /\ AllFinite
  /\ StrictImprovements = {1, 3}
  /\ Captures = {1, 3}
  /\ heap["live"] = history[3].param
  /\ history[3].param # history[4].param
\* C8: a constructor call with a mode other than "min" or "max" raises and
\* yields no object; every tracker that exists has mode "min" or "max".
C8_UnknownModeRejected ==
  /\ (requested_mode \notin {"unset", "min", "max"}
        => (~constructed /\ raised = "ValueError"))
  /\ (constructed => mode \in {"min", "max"} /\ mode = requested_mode)

\* the constructor was called with mode "auto" and raised
C8_Witness ==
  /\ phase = "CtorFailed"
  /\ requested_mode = "auto"
  /\ raised = "ValueError"

\* C9: no on_epoch_end call changes the live module's parameters, whether it
\* captures, does not improve, is skipped by the interval or finds the metric
\* missing; the tracker writes them in on_train_end only.
C9_EpochEndLeavesLiveParameters ==
  [][phase = "EpochEnd" => heap'["live"] = heap["live"]]_vars

\* on_epoch_end has been skipped by the interval, has captured and has
\* found the metric missing or not improved, with optimizer steps in between
C9_Witness ==
  /\ constructed
  /\ Len(history) = 4
  /\ Cardinality(Captures) >= 1
  /\ \E i \in Calls : ~history[i].looked
  /\ \E i \in Calls : i > Min(Captures) /\ history[i].looked
                        /\ ~history[i].improved
  /\ heap["live"] = n_steps

\* C10: in every epoch on_epoch_start calls resample_labels exactly once, and
\* the call is made before any batch of the epoch is drawn.
C10_ResampleOncePerEpochBeforeBatches ==
  /\ (phase = "EpochStart" => (resample_calls = 0 /\ batch_idx = 0))
  /\ (phase \in {"Batches", "EpochEnd"} => resample_calls = 1)
  /\ (batch_idx > 0 => resample_calls = 1)

\* the second epoch of a session has drawn all its batches after one resample
C10_Witness ==
  /\ phase = "EpochEnd"
  /\ Len(history) >= 1
  /\ Last.sess = session
  /\ batch_idx = n_batches
  /\ batch_idx >= 1
  /\ resample_calls = 1
\* the warmup length in force and the counter it is measured against
KLWarmup == IF n_epochs_kl_warmup # Unset THEN n_epochs_kl_warmup
            ELSE n_iter_kl_warmup
KLElapsed == IF n_epochs_kl_warmup # Unset THEN current_epoch
             ELSE current_iteration

\* the weight is the clipped linear ramp, and the three values observed
\* after two epochs
C11_RampValues ==
  /\ KLWarmup > 0 =>
       /\ kl_weight.den > 0
       /\ 0 <= kl_weight.num /\ kl_weight.num <= kl_weight.den
       /\ (KLElapsed <= KLWarmup
             => kl_weight.num * KLWarmup = kl_weight.den * KLElapsed)
       /\ (KLElapsed >= KLWarmup => kl_weight.num = kl_weight.den)
  /\ (current_epoch = 2 /\ (n_epochs_kl_warmup = 1 \/ n_iter_kl_warmup = 1))
       => 100 * kl_weight.num >= 99 * kl_weight.den
  /\ (current_epoch = 2 /\ n_epochs_kl_warmup = 5)
       => 100 * kl_weight.num <= 99 * kl_weight.den

\* C11: for a warmup length > 0 the KL weight is min(1, elapsed / length): it
\* lies in [0, 1], is 1 once elapsed reaches the length, never decreases as
\* the counters advance, and after 2 epochs it is >= 0.99 with a warmup of 1
\* epoch or 1 iteration and <= 0.99 with a warmup of 5 epochs.
C11_KLWeightIsClippedRamp ==
  /\ []C11_RampValues
  /\ [][kl_weight'.num * kl_weight.den >= kl_weight.num * kl_weight'.den]_vars

\* a warmup of 5 epochs, two epochs done: the weight is 2/5
C11_Witness ==
  /\ n_epochs_kl_warmup = 5
  /\ current_epoch = 2
  /\ current_iteration = 2 * iters_per_epoch
  /\ kl_weight = [num |-> 2, den |-> 5]
\* the initial best value of a mode
InitialBest(m) == IF m = "min" THEN Inf ELSE NegInf

\* best starts at the infinity of the mode, and a first evaluated value that
\* is finite was captured
C12_InitialBest ==
  constructed =>
    /\ (Captures = {} => best_model_metric_val = InitialBest(mode))
    /\ (Evaluated # {} /\ history[Min(Evaluated)].cur \in FiniteVals
          => history[Min(Evaluated)].improved)

\* C12: an evaluation reports an improvement exactly when current < best in
\* min-mode and exactly when current > best in max-mode, both strict; best
\* starts at +infinity in min-mode and -infinity in max-mode, so the first
\* evaluated finite value is an improvement in either mode.
C12_StrictComparisonPerMode ==
  /\ []C12_InitialBest
  /\ [][(/\ phase = "EpochEnd"
          /\ Len(history') = Len(history) + 1
          /\ history'[Len(history')].looked
          /\ history'[Len(history')].cur # None)
         => (history'[Len(history')].improved
               <=> better(mode, history'[Len(history')].cur,
                          best_model_metric_val))]_vars

\* in max-mode a first finite value was captured, an equal value was not,
\* and a greater one was
C12_Witness ==
  /\ constructed /\ mode = "max" /\ period = 1
  /\ Len(history) = 3
  /\ history[1].cur \in FiniteVals
  /\ history[2].cur = history[1].cur
  /\ lt(history[2].cur, history[3].cur)
  /\ Captures = {1, 3}
\* the values looked up and found so far
EvaluatedVals == {history[i].cur : i \in Evaluated}

\* b is the least (min-mode) or greatest (max-mode) element of S
IsBestOf(m, b, S) ==
  /\ b \in S
  /\ \A y \in S : b = y \/ better(m, b, y)

\* C13 as stated: best_model_metric_val is the minimum (min-mode) or maximum
\* (max-mode) of all the values evaluated so far, or the initial infinity
\* when none was.
C13_BestIsExtremeOfEvaluated ==
  constructed =>
    IF EvaluatedVals = {}
    THEN best_model_metric_val = InitialBest(mode)
    ELSE IsBestOf(mode, best_model_metric_val, EvaluatedVals)

\* the same over the evaluated values other than NaN
C13_BestOfNumbers ==
  constructed =>
    IF EvaluatedVals \ {NaN} = {}
    THEN best_model_metric_val = InitialBest(mode)
    ELSE IsBestOf(mode, best_model_metric_val, EvaluatedVals \ {NaN})

\* C13 amended: best_model_metric_val is the minimum (min-mode) or maximum
\* (max-mode) of the values evaluated so far that are not NaN, or the initial
\* infinity when there is none; from one call to the next it never gets
\* worse.
C13_BestIsExtremeOfEvaluatedNumbers ==
  /\ []C13_BestOfNumbers
  /\ [][constructed => (\/ best_model_metric_val' = best_model_metric_val
                         \/ better(mode, best_model_metric_val',
                                   best_model_metric_val))]_vars

\* min-mode: three values were evaluated, the middle one the least; a NaN
\* was evaluated as well
C13_Witness ==
  /\ constructed /\ mode = "min" /\ period = 1
  /\ Len(history) = 4
  /\ history[1].cur = Num(1)
  /\ history[2].cur = Num(0)
  /\ history[3].cur = NaN
  /\ history[4].cur = Num(2)
  /\ best_model_metric_val = Num(0)
\* C14: best_model_state is None exactly while best_model_metric_val is the
\* initial infinity of the mode, and a snapshot that exists holds the module
\* state of the call at which the current best_model_metric_val was logged.
C14_SnapshotAndBestAgree ==
  constructed =>
    /\ (best_model_state = "None"
          <=> best_model_metric_val = InitialBest(mode))
    /\ (best_model_state = "None" <=> Captures = {})
    /\ (best_model_state # "None" =>
          /\ history[Max(Captures)].cur = best_model_metric_val
          /\ heap[best_model_state] = history[Max(Captures)].param)

\* two captures; optimizer steps followed the second one, whose value and
\* state are the ones held
C14_Witness ==
  /\ constructed
  /\ Cardinality(Captures) = 2
  /\ Max(Captures) < Len(history)
  /\ best_model_state # "None"
  /\ best_model_metric_val = history[Max(Captures)].cur
  /\ heap[best_model_state] = history[Max(Captures)].param
  /\ heap["live"] # heap[best_model_state]

\* C15: after every on_epoch_end call 0 <= epochs_since_last_check < period,
\* and the metric is looked up at the calls numbered period, 2*period, ... of
\* the callback's lifetime and at no other call.
C15_LookupEveryPeriodCalls ==
  constructed =>
    /\ 0 <= epochs_since_last_check
    /\ epochs_since_last_check < period
    /\ epochs_since_last_check = Len(history) % period
    /\ \A i \in Calls : history[i].looked <=> (i % period = 0)

\* period 2 over two sessions: lookups at calls 2 and 4 only
C15_Witness ==
  /\ constructed /\ period = 2
  /\ Len(history) = 4
  /\ session = 2
  /\ history[3].sess = 2
  /\ {i \in Calls : history[i].looked} = {2, 4}
  /\ epochs_since_last_check = 0
\* after a check that found the metric missing, the next lookup is period
\* calls later
C16_NextLookupAfterMissing ==
  \A i \in Calls : \A j \in Calls :
    history[i].warned =>
      /\ (i < j /\ j < i + period => ~history[j].looked)
      /\ (j = i + period => history[j].looked)

\* C16: a check at which the metric is missing resets epochs_since_last_check
\* to 0 all the same, so the next lookup comes period calls later, not at the
\* next call at which the metric is available.
C16_MissingMetricConsumesSlot ==
  /\ []C16_NextLookupAfterMissing
  /\ [][(/\ phase = "EpochEnd"
          /\ Len(history') = Len(history) + 1
          /\ epochs_since_last_check + 1 >= period
          /\ history'[Len(history')].cur = None)
         => epochs_since_last_check' = 0]_vars

\* period 2: the metric was missing at call 2, available but not looked up
\* at call 3, and looked up at call 4
C16_Witness ==
  /\ constructed /\ period = 2
  /\ Len(history) = 4
  /\ history[2].warned /\ history[2].cur = None
  /\ history[3].cur \in FiniteVals /\ ~history[3].looked
  /\ history[4].looked /\ history[4].improved

\* the captures of the first session, and whether a value evaluated in the
\* second session is strictly better than the best one of the first
FirstSessionCaptures == {i \in Captures : history[i].sess = 1}
SecondSessionImproves ==
  \E i \in Evaluated :
    /\ history[i].sess = 2
    /\ better(mode, history[i].cur, history[Max(FirstSessionCaptures)].cur)

\* when the second session of one instance has ended, the state restored is
\* the first session's snapshot unless the second session improved on it
C17_SecondSessionRestore ==
  (constructed /\ session = 2 /\ phase = "Completed"
     /\ FirstSessionCaptures # {})
    => IF SecondSessionImproves
       THEN /\ history[Max(Captures)].sess = 2
            /\ heap["live"] = history[Max(Captures)].param
       ELSE /\ Captures = FirstSessionCaptures
            /\ heap["live"] = history[Max(FirstSessionCaptures)].param

\* C17: on_train_end changes none of best_model_state, best_model_metric_val
\* and epochs_since_last_check, and neither does the start of a new session;
\* a second session with the same instance starts from the first session's
\* best value and snapshot and restores that snapshot at its end unless one
\* of its own values strictly improves on the earlier best.
C17_TrackerStateOutlivesSession ==
  /\ []C17_SecondSessionRestore
  /\ [][(phase = "LoopHead" /\ phase' \in {"Completed", "Failed"})
         => tracker' = tracker]_vars
  /\ [][session' # session
         => (tracker' = tracker /\ heap' = heap)]_vars

\* the second session trained and evaluated without improving on the first
\* session's best, and its on_train_end restored the first session's snapshot
C17_Witness ==
  /\ constructed /\ session = 2 /\ phase = "Completed"
  /\ FirstSessionCaptures # {}
  /\ Captures = FirstSessionCaptures
  /\ \E i \in Evaluated : history[i].sess = 2
  /\ history[Len(history)].param # history[Max(Captures)].param
  /\ heap["live"] = history[Max(Captures)].param
====
